---- MODULE Spec2Model ----
(***************************************************************************)
(* A model of rag.py: the RAGApp retrieval-augmented query pipeline.       *)
(*                                                                         *)
(* Texts that the program splits, strips or lower-cases are sequences of   *)
(* one-character strings; texts it only passes along (the backend's        *)
(* content, exception messages) are strings.                               *)
(*                                                                         *)
(*   Spec       main(): index_pdf, then the run_interactive loop with      *)
(*              query and save_query_log, their external calls failing or  *)
(*              being interrupted nondeterministically.                    *)
(*   SpecChunk  chunk_text applied to every bounded (text, chunk_size,     *)
(*              overlap).                                                  *)
(*   SpecIndex  index_pdf called repeatedly on one RAGApp, so that it      *)
(*              meets the collection an earlier call filled.               *)
(***************************************************************************)
EXTENDS Integers, Sequences, FiniteSets, TLC

VARIABLES
    pc,              \* position of the process in main() / run_interactive / query
    pdf_pages,       \* the pages of the PDF at self.pdf_path (text of each page)
    collection,      \* self.collection: the indexed documents, in id order
    line,            \* the raw line returned by the last input() call
    question,        \* the stripped line of the current loop iteration
    context_length,  \* query's local context_length
    prompt_length,   \* query's local prompt_length
    answer,          \* the text query is about to return (answer or error_msg)
    token_info,      \* token_info handed to save_query_log (NoneValue for None)
    save_from,       \* call site of the running save_query_log: "try" or "except"
    log_file,        \* save_query_log's local log_file
    log_data,        \* save_query_log's local log_data
    files,           \* the query_logs directory: file name -> content
    clock,           \* the wall clock, in ticks (microseconds, scaled)
    display,         \* what the session printed last
    opened,          \* history: the file names open(log_file, 'w') created, in order
    nReads,          \* history: number of input() calls that returned
    nRetrieve,       \* history: number of collection.query calls
    nBackend,        \* history: number of ollama.chat calls
    nWriteFaults,    \* history: number of open() and json.dump calls that raised
    call,            \* history: the current or last call of query
    index_call,      \* history: the current or last call of index_pdf
    text,            \* chunk_text's argument text
    chunk_size,      \* chunk_text's argument chunk_size
    overlap,         \* chunk_text's argument overlap
    chunks,          \* chunk_text's result
    cpc              \* position of the chunk_text call: "call", "returned", "raised"

vars == <<pc, pdf_pages, collection, line, question, context_length, prompt_length,
          answer, token_info, save_from, log_file, log_data, files, clock, display,
          opened, nReads, nRetrieve, nBackend, nWriteFaults, call, index_call,
          text, chunk_size, overlap, chunks, cpc>>

sessionVars == <<pc, pdf_pages, collection, line, question, context_length,
                 prompt_length, answer, token_info, save_from, log_file, log_data,
                 files, clock, display, opened, nReads, nRetrieve, nBackend,
                 nWriteFaults, call, index_call>>

chunkVars == <<text, chunk_size, overlap, chunks, cpc>>

----------------------------------------------------------------------------
(* Bounds of the model *)

\* longest text handed to chunk_text in SpecChunk, in characters
MaxTextLen == 7
\* chunk_size and overlap range over -MaxSize .. MaxSize in SpecChunk
MaxSize == 3
\* number of input() calls of one session
MaxInputs == 2
\* ticks of the wall clock in one second (the %f field counts them)
TicksPerSec == 3
\* most ticks that pass between two readings of the clock
MaxTick == 2
\* number of open() and json.dump calls of one session that raise
MaxWriteFaults == 1
\* number of calls of index_pdf on one RAGApp in SpecIndex
MaxIndexCalls == 4

(* Program constants *)

DefaultChunkSize == 500
DefaultOverlap == 50
NResults == 5
\* len() of the prompt template around {context} and {question}
TemplateLen == 109
NsPerSec == 1000000000

----------------------------------------------------------------------------
(* Python's str and list operations *)

Whitespace == {" ", "\t", "\n"}

UpperCase == <<"A","B","C","D","E","F","G","H","I","J","K","L","M",
               "N","O","P","Q","R","S","T","U","V","W","X","Y","Z">>
LowerCase == <<"a","b","c","d","e","f","g","h","i","j","k","l","m",
               "n","o","p","q","r","s","t","u","v","w","x","y","z">>

Min(a, b) == IF a < b THEN a ELSE b
Max(a, b) == IF a > b THEN a ELSE b

\* str.lower() of one character
LowerChar(c) ==
    IF \E i \in 1..26 : UpperCase[i] = c
    THEN LowerCase[CHOOSE i \in 1..26 : UpperCase[i] = c]
    ELSE c

\* str.lower()
lower(s) == [i \in 1..Len(s) |-> LowerChar(s[i])]

\* str.strip(): leading and trailing whitespace removed
strip(s) ==
    LET nonws == {i \in 1..Len(s) : s[i] \notin Whitespace}
    IN  IF nonws = {} THEN <<>>
        ELSE SubSeq(s, CHOOSE i \in nonws : \A j \in nonws : i <= j,
                       CHOOSE i \in nonws : \A j \in nonws : j <= i)

\* str.split(): the maximal runs of non-whitespace characters, in order
RECURSIVE SplitFrom(_, _, _)
SplitFrom(s, i, word) ==
    IF i > Len(s) THEN (IF word = <<>> THEN <<>> ELSE <<word>>)
    ELSE IF s[i] \in Whitespace
         THEN (IF word = <<>> THEN <<>> ELSE <<word>>) \o SplitFrom(s, i + 1, <<>>)
         ELSE SplitFrom(s, i + 1, Append(word, s[i]))

split(s) == SplitFrom(s, 1, <<>>)

\* sep.join(parts)
RECURSIVE join(_, _)
join(sep, parts) ==
    IF parts = <<>> THEN <<>>
    ELSE IF Len(parts) = 1 THEN parts[1]
    ELSE parts[1] \o sep \o join(sep, Tail(parts))

\* the slice below with its last element left out
SliceOffByOne(words, start, stop) ==
    LET n  == Len(words)
        hi == (IF stop < 0 THEN Max(stop + n, 0) ELSE Min(stop, n)) - 1
        lo == Min(start, n)
    IN  IF hi <= lo THEN <<>> ELSE SubSeq(words, lo + 1, hi)

\* words[start:stop] for 0 <= start: a negative stop counts from the end, and
\* both ends are clamped to the list
Slice(words, start, stop) ==
    LET n  == Len(words)
        hi == IF stop < 0 THEN Max(stop + n, 0) ELSE Min(stop, n)
        lo == Min(start, n)
    IN  IF hi <= lo THEN <<>> ELSE SubSeq(words, lo + 1, hi)

\* range(0, stop, step) for step # 0, as the sequence of its values
RangeFromZero(stop, step) ==
    IF step < 0 \/ stop <= 0 THEN <<>>
    ELSE [k \in 1..((stop + step - 1) \div step) |-> (k - 1) * step]

\* dict.get(key, default)
Get(d, key, default) == IF key \in DOMAIN d THEN d[key] ELSE default

\* None, and the truth value Python gives a dict or None
NoneValue == <<>>
Truthy(d) == DOMAIN d # {}

----------------------------------------------------------------------------
(* RAGApp.chunk_text *)

\* the chunks appended for the window starts in `starts`, empty chunks skipped
RECURSIVE ChunkLoop(_, _, _)
ChunkLoop(words, starts, size) ==
    IF starts = <<>> THEN <<>>
    ELSE LET chunk == join(<<" ">>, Slice(words, Head(starts), Head(starts) + size))
         IN  (IF chunk # <<>> THEN <<chunk>> ELSE <<>>)
             \o ChunkLoop(words, Tail(starts), size)

\* chunk_text(text, chunk_size, overlap): range() raises ValueError for a zero
\* step; otherwise the list of chunks is returned
chunk_text(t, size, ov) ==
    LET words == split(t)
    IN  IF size - ov = 0
        THEN [raised |-> "ValueError", chunks |-> <<>>]
        ELSE [raised |-> "",
              chunks |-> ChunkLoop(words, RangeFromZero(Len(words), size - ov), size)]

----------------------------------------------------------------------------
(* SpecChunk: chunk_text on every bounded input *)

TextChars == {" ", "a", "b"}

RECURSIVE SeqsUpTo(_, _)
SeqsUpTo(S, n) ==
    IF n = 0 THEN {<<>>}
    ELSE LET shorter == SeqsUpTo(S, n - 1)
         IN  shorter \cup {Append(s, c) : s \in {x \in shorter : Len(x) = n - 1}, c \in S}

InitSession ==
    /\ pc = "Idle"
    /\ collection = <<>>
    /\ line = <<>>
    /\ question = <<>>
    /\ context_length = 0
    /\ prompt_length = 0
    /\ answer = ""
    /\ token_info = NoneValue
    /\ save_from = "try"
    /\ log_file = <<>>
    /\ log_data = <<>>
    /\ files = <<>>
    /\ clock = 0
    /\ display = [kind |-> "none", text |-> ""]
    /\ opened = <<>>
    /\ nReads = 0
    /\ nRetrieve = 0
    /\ nBackend = 0
    /\ nWriteFaults = 0
    /\ index_call = [status |-> "none", n |-> 0, before |-> <<>>,
                     confirmed |-> FALSE, failedAt |-> "none"]
    /\ call = [status |-> "none", retrievalFailed |-> FALSE, backend |-> "none",
               content |-> "", writeFailures |-> 0, recordsBefore |-> 0,
               namesBefore |-> {}]

InitChunk ==
    /\ InitSession
    /\ pdf_pages = <<>>
    /\ text \in SeqsUpTo(TextChars, MaxTextLen)
    /\ chunk_size \in (0 - MaxSize)..MaxSize
    /\ overlap \in (0 - MaxSize)..MaxSize
    /\ chunks = <<>>
    /\ cpc = "call"

\* one call chunk_text(text, chunk_size, overlap)
ChunkText ==
    /\ cpc = "call"
    /\ LET r == chunk_text(text, chunk_size, overlap)
       IN  /\ cpc' = (IF r.raised # "" THEN "raised" ELSE "returned")
           /\ chunks' = r.chunks
    /\ UNCHANGED <<text, chunk_size, overlap>>
    /\ UNCHANGED sessionVars

NextChunk == ChunkText

SpecChunk == InitChunk /\ [][NextChunk]_vars

----------------------------------------------------------------------------
(* The environment of one session *)

\* the history record of a query call that has not started
EmptyCall == [status |-> "none", retrievalFailed |-> FALSE, backend |-> "none",
              content |-> "", writeFailures |-> 0, recordsBefore |-> 0,
              namesBefore |-> {}]

\* the PDF found in the current directory: no page, or two pages
PDFs == { <<>>,
          << <<"a", " ", "b">>, <<"c">> >> }

\* the lines input() can return
Inputs == { <<>>,
            <<" ", "\t">>,
            <<"q", "u", "i", "t">>,
            <<" ", "E", "x", "i", "t", " ">>,
            <<"Q", "\t">>,
            <<"s", "t", "a", "t", "s">>,
            <<" ", "S", "t", "A", "t", "S">>,
            <<" ", "q", "u", "i", "t", "?">> }

\* what ollama.chat can return: a full response, a response without telemetry
\* and with empty content, and a response without the 'message' key
Responses == { [message |-> [content |-> "Paris"], prompt_eval_count |-> 7,
                eval_count |-> 2, total_duration |-> 9, load_duration |-> 1,
                prompt_eval_duration |-> 3, eval_duration |-> 5],
               [message |-> [content |-> ""]],
               [done |-> TRUE] }

\* str(e) of the exceptions the external calls raise
BackendErrors == {""}
RetrievalErrors == {"embedding failed"}
OpenErrors == {"Permission denied"}
WriteErrors == {"No space left on device"}

----------------------------------------------------------------------------
(* RAGApp.extract_text_from_pdf and RAGApp.index_pdf *)

Digits == <<"1", "2", "3", "4", "5", "6", "7", "8", "9">>

\* f"\n--- Page {i+1} ---\n" for the page with 1-based number n
PageHeader(n) ==
    <<"\n", "-", "-", "-", " ", "P", "a", "g", "e", " ", Digits[n], " ",
      "-", "-", "-", "\n">>

RECURSIVE ExtractFrom(_, _)
ExtractFrom(pages, n) ==
    IF n > Len(pages) THEN <<>>
    ELSE PageHeader(n) \o pages[n] \o ExtractFrom(pages, n + 1)

\* extract_text_from_pdf(): every page's header and text, concatenated
extract_text_from_pdf(pages) == ExtractFrom(pages, 1)

\* index_pdf() on the empty collection main() hands it: extract, chunk with the
\* default sizes, collection.add
IndexPdf ==
    /\ pc = "Idle"
    /\ Len(collection) = 0
    /\ LET t == extract_text_from_pdf(pdf_pages)
           r == chunk_text(t, DefaultChunkSize, DefaultOverlap)
       IN  /\ text' = t
           /\ chunk_size' = DefaultChunkSize
           /\ overlap' = DefaultOverlap
           /\ chunks' = r.chunks
           /\ cpc' = "returned"
           /\ collection' = r.chunks
    /\ pc' = "Ready"
    /\ UNCHANGED <<pdf_pages, line, question, context_length, prompt_length, answer,
                   token_info, save_from, log_file, log_data, files, clock, display,
                   opened, nReads, nRetrieve, nBackend, call,
                   nWriteFaults>>
    /\ UNCHANGED index_call

\* PdfReader, collection.add or an interrupt raises inside index_pdf: main() has
\* no handler, the process ends before the session starts
IndexPdfRaises ==
    /\ pc = "Idle"
    /\ pc' = "Aborted"
    /\ UNCHANGED <<pdf_pages, collection, line, question, context_length,
                   prompt_length, answer, token_info, save_from, log_file, log_data,
                   files, clock, display, opened, nReads, nRetrieve, nBackend, call,
                   nWriteFaults>>
    /\ UNCHANGED chunkVars
    /\ UNCHANGED index_call

----------------------------------------------------------------------------
(* SpecIndex: RAGApp.index_pdf, step by step, called again and again *)

\* the lines input("Re-index? (y/n): ") can return
ReindexInputs == { <<"y">>, <<"Y">>, <<"n">>, <<"y", " ">> }

\* the variables no step of index_pdf touches
indexFrame == <<question, context_length, prompt_length, answer, token_info,
                save_from, log_file, log_data, files, clock, display, opened,
                nReads, nRetrieve, nBackend, nWriteFaults, call>>

\* input(...).lower() != 'y'
DeclinesReindex(response) == lower(response) # <<"y">>

\* delete_collection, then get_or_create_collection: a new, empty collection
RecreatedCollection(coll) == <<>>

\* index_pdf is entered; an empty collection goes straight to the extraction,
\* a filled one to the Re-index prompt
IndexEnter ==
    /\ pc = "Idle"
    /\ index_call.n < MaxIndexCalls
    /\ index_call' = [status |-> "running", n |-> index_call.n + 1,
                      before |-> collection, confirmed |-> FALSE,
                      failedAt |-> "none"]
    /\ pc' = IF Len(collection) > 0 THEN "IndexAsk" ELSE "IndexExtract"
    /\ UNCHANGED <<pdf_pages, collection, line>>
    /\ UNCHANGED indexFrame
    /\ UNCHANGED chunkVars

\* lines 68-76: the answer to the prompt; anything but y returns, y deletes
\* and recreates the collection
IndexAsk ==
    /\ pc = "IndexAsk"
    /\ \E response \in ReindexInputs :
         /\ line' = response
         /\ IF DeclinesReindex(response)
            THEN /\ pc' = "Idle"
                 /\ index_call' = [index_call EXCEPT !.status = "returned"]
                 /\ UNCHANGED collection
            ELSE /\ pc' = "IndexExtract"
                 /\ index_call' = [index_call EXCEPT !.confirmed = TRUE]
                 /\ collection' = RecreatedCollection(collection)
    /\ UNCHANGED pdf_pages
    /\ UNCHANGED indexFrame
    /\ UNCHANGED chunkVars

\* lines 79-80: the PDF at pdf_path, as it is on disk now, is read and chunked
IndexExtract ==
    /\ pc = "IndexExtract"
    /\ \E pages \in PDFs :
         LET t == extract_text_from_pdf(pages)
             r == chunk_text(t, DefaultChunkSize, DefaultOverlap)
         IN  /\ pdf_pages' = pages
             /\ text' = t
             /\ chunks' = r.chunks
    /\ chunk_size' = DefaultChunkSize
    /\ overlap' = DefaultOverlap
    /\ cpc' = "returned"
    /\ pc' = "IndexAdd"
    /\ UNCHANGED <<collection, line, index_call>>
    /\ UNCHANGED indexFrame

\* PdfReader or extract_text raises: the exception leaves index_pdf
IndexExtractRaises ==
    /\ pc = "IndexExtract"
    /\ index_call' = [index_call EXCEPT !.status = "raised", !.failedAt = "extract"]
    /\ pc' = "Idle"
    /\ UNCHANGED <<pdf_pages, collection, line>>
    /\ UNCHANGED indexFrame
    /\ UNCHANGED chunkVars

\* lines 84-89: collection.add embeds and inserts every chunk
IndexAdd ==
    /\ pc = "IndexAdd"
    /\ collection' = collection \o chunks
    /\ index_call' = [index_call EXCEPT !.status = "returned"]
    /\ pc' = "Idle"
    /\ UNCHANGED <<pdf_pages, line>>
    /\ UNCHANGED indexFrame
    /\ UNCHANGED chunkVars

\* the embedding function raises inside collection.add: nothing is inserted
\* and the exception leaves index_pdf
IndexAddRaises ==
    /\ pc = "IndexAdd"
    /\ index_call' = [index_call EXCEPT !.status = "raised", !.failedAt = "add"]
    /\ pc' = "Idle"
    /\ UNCHANGED <<pdf_pages, collection, line>>
    /\ UNCHANGED indexFrame
    /\ UNCHANGED chunkVars

InitIndex ==
    /\ InitSession
    /\ pdf_pages \in PDFs
    /\ text = <<>>
    /\ chunk_size = DefaultChunkSize
    /\ overlap = DefaultOverlap
    /\ chunks = <<>>
    /\ cpc = "none"

NextIndex ==
    \/ IndexEnter
    \/ IndexAsk
    \/ IndexExtract
    \/ IndexExtractRaises
    \/ IndexAdd
    \/ IndexAddRaises

SpecIndex == InitIndex /\ [][NextIndex]_vars

----------------------------------------------------------------------------
(* RAGApp.run_interactive: one input() and its dispatch *)

QuitWords == { <<"q", "u", "i", "t">>, <<"e", "x", "i", "t">>, <<"q">> }
StatsWord == <<"s", "t", "a", "t", "s">>

\* the two comparisons below with .lower() left out
IsQuitCommandNoLower(q) == q \in QuitWords
IsStatsCommandNoLower(q) == q = StatsWord

\* question.lower() in ['quit', 'exit', 'q']
IsQuitCommand(q) == lower(q) \in QuitWords

\* question.lower() == 'stats'
IsStatsCommand(q) == lower(q) = StatsWord

\* the number of log files that hold a complete record
NumRecords(fs) == Cardinality({n \in DOMAIN fs : fs[n].written = "all"})

ReadInput ==
    /\ pc = "Ready"
    /\ nReads < MaxInputs
    /\ \E raw \in Inputs :
         LET q == strip(raw)
         IN  /\ line' = raw
             /\ question' = q
             /\ nReads' = nReads + 1
             /\ IF q = <<>>
                THEN \* continue
                     /\ pc' = "Ready"
                     /\ UNCHANGED <<display, call>>
                ELSE IF IsQuitCommand(q)
                THEN \* break
                     /\ pc' = "Terminated"
                     /\ display' = [kind |-> "goodbye", text |-> ""]
                     /\ UNCHANGED call
                ELSE IF IsStatsCommand(q)
                THEN \* collection.count() is printed; continue
                     /\ pc' = "Ready"
                     /\ display' = [kind |-> "stats", text |-> "", count |-> Len(collection)]
                     /\ UNCHANGED call
                ELSE \* self.query(question) is entered
                     /\ pc' = "Retrieve"
                     /\ call' = [EmptyCall EXCEPT !.status = "running",
                                                  !.recordsBefore = NumRecords(files),
                                                  !.namesBefore = DOMAIN files]
                     /\ UNCHANGED display
    /\ UNCHANGED <<pdf_pages, collection, context_length, prompt_length, answer,
                   token_info, save_from, log_file, log_data, files, clock, opened,
                   nRetrieve, nBackend,
                   nWriteFaults>>
    /\ UNCHANGED chunkVars
    /\ UNCHANGED index_call

\* KeyboardInterrupt anywhere inside the loop's try block: Goodbye, break
Interrupt ==
    /\ pc \in {"Ready", "Retrieve", "Backend", "SaveOpen", "SaveDump"}
    /\ pc' = "Terminated"
    /\ display' = [kind |-> "goodbye", text |-> ""]
    /\ call' = IF call.status = "running"
               THEN [call EXCEPT !.status = "interrupted"] ELSE call
    /\ UNCHANGED <<pdf_pages, collection, line, question, context_length,
                   prompt_length, answer, token_info, save_from, log_file, log_data,
                   files, clock, opened, nReads, nRetrieve, nBackend,
                   nWriteFaults>>
    /\ UNCHANGED chunkVars
    /\ UNCHANGED index_call

----------------------------------------------------------------------------
(* RAGApp.query *)

\* self.model and self.pdf_path
model_name == "qwen3-vl:32b"
pdf_path == "doc.pdf"

\* error_msg WITHOUT its fixed prefix
ErrorMsgBare(e) == e

\* error_msg = f"Error querying model: {str(e)}"
ErrorMsg(e) == "Error querying model: " \o e

\* results['documents'][0]: at most n_results documents of the collection (the
\* ranking is the embedding function's; the model keeps the id order)
QueryResults(coll, n) == SubSeq(coll, 1, Min(n, Len(coll)))

\* token_info built from the response, absent keys read as 0
TokenInfo(r) ==
    [prompt_eval_count    |-> Get(r, "prompt_eval_count", 0),
     eval_count           |-> Get(r, "eval_count", 0),
     total_duration       |-> Get(r, "total_duration", 0),
     load_duration        |-> Get(r, "load_duration", 0),
     prompt_eval_duration |-> Get(r, "prompt_eval_duration", 0),
     eval_duration        |-> Get(r, "eval_duration", 0)]

\* an exception of collection.query leaves query; the loop's handler prints it
\* and the loop goes on
RetrieveRaises ==
    /\ pc = "Retrieve"
    /\ \E e \in RetrievalErrors :
         display' = [kind |-> "error", text |-> e]
    /\ nRetrieve' = nRetrieve + 1
    /\ call' = [call EXCEPT !.status = "raised", !.retrievalFailed = TRUE]
    /\ pc' = "Ready"
    /\ UNCHANGED <<pdf_pages, collection, line, question, context_length,
                   prompt_length, answer, token_info, save_from, log_file, log_data,
                   files, clock, opened, nReads, nBackend,
                   nWriteFaults>>
    /\ UNCHANGED chunkVars
    /\ UNCHANGED index_call

\* collection.query returns: the context and the prompt are built
Retrieve ==
    /\ pc = "Retrieve"
    /\ LET context_chunks == QueryResults(collection, NResults)
           context == join(<<"\n", "\n">>, context_chunks)
       IN  /\ context_length' = Len(context)
           /\ prompt_length' = TemplateLen + Len(context) + Len(question)
    /\ nRetrieve' = nRetrieve + 1
    /\ pc' = "Backend"
    /\ UNCHANGED <<pdf_pages, collection, line, question, answer, token_info,
                   save_from, log_file, log_data, files, clock, display, opened,
                   nReads, nBackend, call,
                   nWriteFaults>>
    /\ UNCHANGED chunkVars
    /\ UNCHANGED index_call

\* ollama.chat returns a response with its message: the try branch goes on to
\* save_query_log(question, answer, ..., token_info)
BackendReturns ==
    /\ pc = "Backend"
    /\ \E r \in Responses :
         /\ "message" \in DOMAIN r
         /\ answer' = r.message.content
         /\ token_info' = TokenInfo(r)
         /\ call' = [call EXCEPT !.backend = "ok", !.content = r.message.content]
    /\ save_from' = "try"
    /\ nBackend' = nBackend + 1
    /\ pc' = "SaveOpen"
    /\ UNCHANGED <<pdf_pages, collection, line, question, context_length,
                   prompt_length, log_file, log_data, files, clock, display, opened,
                   nReads, nRetrieve,
                   nWriteFaults>>
    /\ UNCHANGED chunkVars
    /\ UNCHANGED index_call

\* ollama.chat raises, or its response has no 'message' (KeyError): the except
\* branch builds error_msg and calls save_query_log(..., error_msg, ..., None)
BackendRaises ==
    /\ pc = "Backend"
    /\ \E e \in BackendErrors \cup {"'message'"} :
         /\ e = "'message'" => \E r \in Responses : "message" \notin DOMAIN r
         /\ answer' = ErrorMsg(e)
    /\ token_info' = NoneValue
    /\ call' = [call EXCEPT !.backend = "fail"]
    /\ save_from' = "except"
    /\ nBackend' = nBackend + 1
    /\ pc' = "SaveOpen"
    /\ UNCHANGED <<pdf_pages, collection, line, question, context_length,
                   prompt_length, log_file, log_data, files, clock, display, opened,
                   nReads, nRetrieve,
                   nWriteFaults>>
    /\ UNCHANGED chunkVars
    /\ UNCHANGED index_call

----------------------------------------------------------------------------
(* RAGApp.save_query_log *)

\* the file name WITHOUT the %f field
LogFileNameNoMicros(t) == <<"query", t \div TicksPerSec, 0, "json">>

\* logs_dir / f"query_{timestamp}.json", timestamp = strftime("%Y%m%d_%H%M%S_%f"):
\* the second and the microsecond within it
LogFileName(t) == <<"query", t \div TicksPerSec, t % TicksPerSec, "json">>

\* datetime.isoformat()
IsoFormat(t) == <<t \div TicksPerSec, t % TicksPerSec>>

\* log_data["token_details"]
TokenDetails(ti) ==
    [prompt_tokens   |-> ti.prompt_eval_count,
     response_tokens |-> ti.eval_count,
     total_tokens    |-> ti.prompt_eval_count + ti.eval_count,
     timing |-> [total_duration_ns       |-> ti.total_duration,
                 load_duration_ns        |-> ti.load_duration,
                 prompt_eval_duration_ns |-> ti.prompt_eval_duration,
                 eval_duration_ns        |-> ti.eval_duration,
                 total_duration_sec      |-> <<ti.total_duration, NsPerSec>>,
                 eval_duration_sec       |-> <<ti.eval_duration, NsPerSec>>]]

\* log_data: token_details only for a truthy token_info
LogData(t, q, a, clen, plen, ti) ==
    LET base == [timestamp |-> IsoFormat(t),
                 model     |-> model_name,
                 question  |-> q,
                 response  |-> a,
                 metadata  |-> [context_length_chars |-> clen,
                                prompt_length_chars  |-> plen,
                                pdf_source           |-> pdf_path]]
    IN  IF Truthy(ti) THEN ("token_details" :> TokenDetails(ti)) @@ base ELSE base

\* save_query_log raised e. At the call site in query's try branch the handler
\* builds error_msg and calls save_query_log again; at the call site in the
\* except branch the exception leaves query and the loop's handler prints it
SaveRaises(e) ==
    IF save_from = "try"
    THEN /\ answer' = ErrorMsg(e)
         /\ token_info' = NoneValue
         /\ save_from' = "except"
         /\ pc' = "SaveOpen"
         /\ call' = [call EXCEPT !.writeFailures = @ + 1]
         /\ UNCHANGED display
    ELSE /\ pc' = "Ready"
         /\ display' = [kind |-> "error", text |-> e]
         /\ call' = [call EXCEPT !.writeFailures = @ + 1, !.status = "raised"]
         /\ UNCHANGED <<answer, token_info, save_from>>

\* lines 160-190: datetime.now() (the readings of lines 160 and 162, taken
\* back to back, are one reading of the clock; at least one tick has passed
\* since the previous save_query_log read it), log_data, log_file, and
\* open(log_file, 'w'), which creates the file empty or truncates it
SaveOpen ==
    /\ pc = "SaveOpen"
    /\ \E d \in 1..MaxTick :
         /\ log_file' = LogFileName(clock + d)
         /\ log_data' = LogData(clock + d, question, answer, context_length,
                                prompt_length, token_info)
         /\ clock' = clock + d
    /\ files' = (log_file' :> [written |-> "none", doc |-> log_data']) @@ files
    /\ opened' = Append(opened, log_file')
    /\ pc' = "SaveDump"
    /\ UNCHANGED <<pdf_pages, collection, line, question, context_length,
                   prompt_length, answer, token_info, save_from, display, nReads,
                   nRetrieve, nBackend, call,
                   nWriteFaults>>
    /\ UNCHANGED chunkVars
    /\ UNCHANGED index_call

\* open(log_file, 'w') raises: no file is created
SaveOpenRaises ==
    /\ pc = "SaveOpen"
    /\ \E d \in 1..MaxTick :
         /\ log_file' = LogFileName(clock + d)
         /\ log_data' = LogData(clock + d, question, answer, context_length,
                                prompt_length, token_info)
         /\ clock' = clock + d
    /\ nWriteFaults < MaxWriteFaults
    /\ nWriteFaults' = nWriteFaults + 1
    /\ \E e \in OpenErrors : SaveRaises(e)
    /\ UNCHANGED <<pdf_pages, collection, line, question, context_length,
                   prompt_length, files, opened, nReads, nRetrieve, nBackend>>
    /\ UNCHANGED chunkVars
    /\ UNCHANGED index_call

\* lines 191-193: json.dump writes the whole document, the file is closed,
\* query returns the answer and the loop prints it
SaveDump ==
    /\ pc = "SaveDump"
    /\ files' = [files EXCEPT ![log_file].written = "all"]
    /\ display' = [kind |-> "answer", text |-> answer]
    /\ call' = [call EXCEPT !.status = "returned"]
    /\ pc' = "Ready"
    /\ UNCHANGED <<pdf_pages, collection, line, question, context_length,
                   prompt_length, answer, token_info, save_from, log_file, log_data,
                   clock, opened, nReads, nRetrieve, nBackend,
                   nWriteFaults>>
    /\ UNCHANGED chunkVars
    /\ UNCHANGED index_call

\* json.dump raises after writing nothing or a part of the document; the with
\* block closes the file and the exception goes on
SaveDumpRaises ==
    /\ pc = "SaveDump"
    /\ \E w \in {"none", "partial"} :
         files' = [files EXCEPT ![log_file].written = w]
    /\ nWriteFaults < MaxWriteFaults
    /\ nWriteFaults' = nWriteFaults + 1
    /\ \E e \in WriteErrors : SaveRaises(e)
    /\ UNCHANGED <<pdf_pages, collection, line, question, context_length,
                   prompt_length, log_file, log_data, clock, opened, nReads,
                   nRetrieve, nBackend>>
    /\ UNCHANGED chunkVars
    /\ UNCHANGED index_call

----------------------------------------------------------------------------
(* Spec: main() *)

Init ==
    /\ InitSession
    /\ pdf_pages \in PDFs
    /\ text = <<>>
    /\ chunk_size = DefaultChunkSize
    /\ overlap = DefaultOverlap
    /\ chunks = <<>>
    /\ cpc = "none"

Next ==
    \/ IndexPdf
    \/ IndexPdfRaises
    \/ ReadInput
    \/ Interrupt
    \/ Retrieve
    \/ RetrieveRaises
    \/ BackendReturns
    \/ BackendRaises
    \/ SaveOpen
    \/ SaveOpenRaises
    \/ SaveDump
    \/ SaveDumpRaises

Spec == Init /\ [][Next]_vars

----------------------------------------------------------------------------
(* Properties of the session (checked under Spec) *)

\* a call of query has ended by returning or by raising an exception that the
\* loop's handler caught
CallEnded == call.status \in {"returned", "raised"}

\* the step in which the running call of query ends that way
CallEnds == call.status = "running" /\ call'.status \in {"returned", "raised"}

\* the step in which input() returns a line
InputRead == pc = "Ready" /\ nReads' = nReads + 1

\* C1: every call of query adds exactly one record to the query log: once the
\* call has returned or raised, the log holds exactly one record more than
\* before the call.
C1_ExactlyOneRecordPerQuery ==
    CallEnded => NumRecords(files) = call.recordsBefore + 1

C3_QuitLines == { <<"q", "u", "i", "t">>,
                  <<" ", "E", "x", "i", "t", " ">>,
                  <<"Q", "\t">> }

\* C3: reading a quit line in Ready terminates the session without a call of
\* the retrieval engine or the backend and without a log write; a Terminated
\* session reads, answers and writes nothing more.
C3_QuitTerminates ==
    /\ [][ (InputRead /\ line' \in C3_QuitLines) =>
             /\ pc' = "Terminated"
             /\ UNCHANGED <<nRetrieve, nBackend, files, opened, call>> ]_vars
    /\ [][ pc = "Terminated" =>
             UNCHANGED <<pc, nReads, nRetrieve, nBackend, files, opened, call,
                         display, line>> ]_vars

\* C3 witness: the session has terminated on the line "Q<TAB>".
C3_Witness ==
    /\ pc = "Terminated"
    /\ line = <<"Q", "\t">>
    /\ display.kind = "goodbye"
    /\ nReads = 2

\* the lines of Inputs that are whitespace only, or stats in some letter case
C4_EmptyOrStatsLines == { <<>>,
                          <<" ", "\t">>,
                          <<"s", "t", "a", "t", "s">>,
                          <<" ", "S", "t", "A", "t", "S">> }

\* C4: reading an empty line or the stats command in Ready leaves the session
\* in Ready, writes no log record, calls neither the retrieval engine nor the
\* backend, and leaves the indexed chunks unchanged.
C4_EmptyAndStatsAreReadOnly ==
    [][ (InputRead /\ line' \in C4_EmptyOrStatsLines) =>
          /\ pc' = "Ready"
          /\ UNCHANGED <<files, opened, nRetrieve, nBackend, collection, call>> ]_vars

\* C4 witness: the session is Ready after reporting the statistics for the
\* line " StAtS", with a record of an earlier query on disk.
C4_Witness ==
    /\ pc = "Ready"
    /\ line = <<" ", "S", "t", "A", "t", "S">>
    /\ display.kind = "stats"
    /\ NumRecords(files) = 1

\* C7: a call of query whose collection.query failed still calls the backend
\* and writes a log record.
C7_RetrievalFailureStillAnswered ==
    (CallEnded /\ call.retrievalFailed) =>
        /\ call.backend # "none"
        /\ NumRecords(files) > call.recordsBefore

\* C8: a call of query whose backend call succeeded and whose log write
\* failed returns the backend's answer text.
C8_LogWriteFailureKeepsAnswer ==
    (CallEnded /\ call.backend = "ok" /\ call.writeFailures > 0) =>
        /\ call.status = "returned"
        /\ answer = call.content

\* C9: the file names save_query_log opened in one session are pairwise
\* distinct, so no open() truncates the file of an earlier record.
C9_DistinctLogFileNames ==
    /\ \A i, j \in 1..Len(opened) : i # j => opened[i] # opened[j]
    /\ Cardinality(DOMAIN files) = Len(opened)

\* C9 witness: two complete records written within the same second.
C9_Witness ==
    \E i, j \in 1..Len(opened) :
        /\ i < j
        /\ opened[i][2] = opened[j][2]
        /\ files[opened[i]].written = "all"
        /\ files[opened[j]].written = "all"

\* C10: whenever save_query_log is not in the middle of a write (it has
\* returned or raised, or the session was interrupted), every log file on
\* disk holds a complete record.
C10_AllOrNothing ==
    pc # "SaveDump" => \A n \in DOMAIN files : files[n].written = "all"

----------------------------------------------------------------------------
(* Properties of index_pdf (checked under SpecIndex) *)

\* a call of index_pdf on a filled collection, confirmed with y, has raised
ReindexFailed ==
    /\ index_call.status = "raised"
    /\ index_call.confirmed
    /\ Len(index_call.before) > 0

\* C11: after a re-indexing pass (index_pdf on a non-empty collection,
\* confirmed with y) that failed during the extraction or during
\* collection.add, the collection holds the chunks it held before the pass.
C11_FailedReindexKeepsGeneration ==
    (pc = "Idle" /\ ReindexFailed) => collection = index_call.before

----------------------------------------------------------------------------
(* Properties of chunk_text (checked under SpecChunk) *)

\* the words of chunk k of the result
ChunkWords(k) == split(chunks[k])

\* the first chunk's words followed by every later chunk's words after its
\* first ov words
RECURSIVE UniqueSpans(_, _)
UniqueSpans(k, ov) ==
    IF k > Len(chunks) THEN <<>>
    ELSE (IF k = 1 THEN ChunkWords(k)
          ELSE SubSeq(ChunkWords(k), ov + 1, Len(ChunkWords(k))))
         \o UniqueSpans(k + 1, ov)

\* C5: chunk_text fails, returning no chunk list, for every call with
\* overlap >= chunk_size or chunk_size <= 0.
C5_InvalidConfigurationFails ==
    (cpc # "call" /\ (overlap >= chunk_size \/ chunk_size <= 0)) => cpc = "raised"

\* the last m words of chunk k are the first m words of chunk k+1
SharesWords(k, m) ==
    LET a == ChunkWords(k)
        b == ChunkWords(k + 1)
    IN  /\ Len(a) >= m
        /\ Len(b) >= m
        /\ SubSeq(a, Len(a) - m + 1, Len(a)) = SubSeq(b, 1, m)

\* C6 (amended): for every text and valid (chunk_size, overlap), with n the
\* number of words and s = chunk_size - overlap: there are ceil(n / s) chunks,
\* chunk k holds the words of the window of chunk_size words that starts s
\* words after the start of chunk k-1 (cut at the end of the text), so every
\* word is covered in source order; two consecutive chunks share exactly
\* overlap words, or the whole later chunk when it is a final chunk shorter
\* than overlap; and exactly one chunk is returned exactly when 1 <= n <= s.
C6_WindowsCoverWithBoundedOverlap ==
    LET words == split(text)
        n == Len(words)
        s == chunk_size - overlap
    IN  (/\ cpc = "returned"
         /\ chunk_size > 0 /\ 0 <= overlap /\ overlap < chunk_size) =>
            /\ (Len(chunks) - 1) * s < n \/ Len(chunks) = 0
            /\ n <= Len(chunks) * s
            /\ \A k \in 1..Len(chunks) :
                   ChunkWords(k) =
                       SubSeq(words, (k - 1) * s + 1, Min(n, (k - 1) * s + chunk_size))
            /\ \A k \in 1..(Len(chunks) - 1) :
                   SharesWords(k, Min(overlap, Len(ChunkWords(k + 1))))
            /\ Len(chunks) = 1 <=> (1 <= n /\ n <= s)

\* C6 witness: a valid call returned at least three chunks, the last of them
\* shorter than overlap.
C6_Witness ==
    /\ cpc = "returned"
    /\ chunk_size > 0 /\ 0 <= overlap /\ overlap < chunk_size
    /\ Len(chunks) >= 3
    /\ Len(ChunkWords(Len(chunks))) < overlap
    /\ Len(split(text)) > chunk_size

\* C6 as stated: for a text with at least one word and a valid (chunk_size,
\* overlap), the chunks' unique spans are the words of the text in order and
\* consecutive chunks share exactly overlap words, except that a text of at
\* most chunk_size words gives exactly one chunk.
C6_CoverageAndExactOverlap ==
    LET words == split(text)
    IN  (/\ cpc = "returned"
         /\ chunk_size > 0 /\ 0 <= overlap /\ overlap < chunk_size
         /\ Len(words) > 0) =>
            IF Len(words) <= chunk_size
            THEN chunks = <<join(<<" ">>, words)>>
            ELSE /\ UniqueSpans(1, overlap) = words
                 /\ \A k \in 1..(Len(chunks) - 1) : SharesWords(k, overlap)

====
